---- MODULE Spec2Model ----
(***************************************************************************)
(* A model of the two entry points of the repository:                      *)
(*   - infra/deploy.py, the Deployment Driver (module level code and       *)
(*     main), as a sequential process with a program counter;              *)
(*   - flows/interview-workflow/performance.py, track_performance.         *)
(* Text written to stdout/stderr is kept as a sequence of lines, a line    *)
(* being the sequence of the fragments an f-string is made of.  JSON       *)
(* values are tagged records, JSON objects are functions from keys.        *)
(***************************************************************************)
EXTENDS Integers, Sequences, FiniteSets, TLC

VARIABLES
    env,          \* os.environ: a function from the names that are set
    files,        \* the file system: path -> content of the file
    pc,           \* where the driver is
    trace,        \* the steps the driver has started, in order
    stdout,       \* lines printed to sys.stdout
    stderr,       \* lines printed to sys.stderr
    exit_code,    \* the process's exit status, -1 while it runs
    client,       \* main's ResourceManagementClient
    proc,         \* compile_bicep's subprocess result
    template,     \* main's template
    parameters,   \* main's parameters
    requests,     \* the begin_create_or_update calls the remote side received
    operation,    \* the long running operation (the poller) begin_... returned
    result,       \* main's result
    now,          \* the wall clock time.time() reads, in ticks
    calls,        \* the inputs of the track_performance calls made
    records       \* the records those calls returned

driverVars == <<env, files, pc, trace, stdout, stderr, exit_code, client, proc,
                template, parameters, requests, operation, result>>
perfVars == <<now, calls, records>>
vars == <<driverVars, perfVars>>

----------------------------------------------------------------------------
(* Bounds of the model *)

MaxParams == 2
MaxCalls == 2
MaxClock == 4
TicksPerMs == 2

----------------------------------------------------------------------------
(* JSON and Python values *)

IntVal(n) == [tag |-> "int", n |-> n, s |-> ""]
StrVal(s) == [tag |-> "str", n |-> 0, s |-> s]

\* str(v), as an f-string formats a value
Str(v) == IF v.tag = "str" THEN v.s ELSE ToString(v.n)

\* no value (Python's None) for a variable not assigned yet
None == [tag |-> "none"]

EmptyDict == [k \in {} |-> None]

ParamNames == <<"a", "b", "c", "d">>
ParamKeys == {ParamNames[i] : i \in 1..MaxParams}
ParamValues == {IntVal(1), StrVal("x")}
\* the keys of a result's outputs, in the order the mapping yields them
OutputNames == <<"url", "id">>
OutputKeys == {OutputNames[i] : i \in 1..Len(OutputNames)}
OutputValues == {StrVal("http://example"), IntVal(1)}

\* an entry {"value": v}, {"value": v, "type": "String"} or {"type": "String"}
EntriesOf(values) ==
    {[f \in {"value"} |-> v] : v \in values}
    \cup {[f \in {"value", "type"} |-> IF f = "value" THEN v ELSE StrVal("String")]
            : v \in {CHOOSE w \in values : w.tag = "str"}}
    \cup {[f \in {"type"} |-> StrVal("String")]}

DictsOf(keys, entries) == UNION {[K -> entries] : K \in SUBSET keys}

----------------------------------------------------------------------------
(* The environment of a run *)

DefaultBicep == "infra/bicep/main.bicep"
DefaultParams == "infra/bicep/main.parameters.json"
Paths == {DefaultParams, "custom.parameters.json"}

Envs ==
    {e \in UNION {[N -> {"", "sub-1", "rg-custom", "custom.bicep", "custom.parameters.json"}]
                    : N \in SUBSET {"AZURE_SUBSCRIPTION_ID", "AZURE_RESOURCE_GROUP",
                                    "BICEP_TEMPLATE_FILE", "BICEP_PARAMETERS_FILE"}} :
        /\ "AZURE_SUBSCRIPTION_ID" \in DOMAIN e => e["AZURE_SUBSCRIPTION_ID"] \in {"", "sub-1"}
        /\ "AZURE_RESOURCE_GROUP" \in DOMAIN e => e["AZURE_RESOURCE_GROUP"] \in {"", "rg-custom"}
        /\ "BICEP_TEMPLATE_FILE" \in DOMAIN e => e["BICEP_TEMPLATE_FILE"] = "custom.bicep"
        /\ "BICEP_PARAMETERS_FILE" \in DOMAIN e
              => e["BICEP_PARAMETERS_FILE"] = "custom.parameters.json"}

\* what a path holds: nothing (no such file), text that is no JSON, a JSON
\* object without "parameters", or a parameters document
Missing == [kind |-> "missing", parameters |-> EmptyDict]
FileContents ==
    {[kind |-> k, parameters |-> EmptyDict] : k \in {"invalid", "no_parameters"}}
    \cup {[kind |-> "document", parameters |-> d]
            : d \in DictsOf(ParamKeys, EntriesOf(ParamValues))}

\* os.getenv(name, default)
getenv_default(name, default) == IF name \in DOMAIN env THEN env[name] ELSE default
\* os.getenv(name): None when unset
getenv(name) == IF name \in DOMAIN env THEN [set |-> TRUE, val |-> env[name]]
                                       ELSE [set |-> FALSE, val |-> ""]

\* a variant: `os.getenv("AZURE_RESOURCE_GROUP") or "rg-agentic-waf"`
RESOURCE_GROUP_OrDefault ==
    IF getenv("AZURE_RESOURCE_GROUP").set /\ getenv("AZURE_RESOURCE_GROUP").val # ""
      THEN getenv("AZURE_RESOURCE_GROUP").val
      ELSE "rg-agentic-waf"

RESOURCE_GROUP == getenv_default("AZURE_RESOURCE_GROUP", "rg-agentic-waf")
SUBSCRIPTION_ID == getenv("AZURE_SUBSCRIPTION_ID")
BICEP_FILE == getenv_default("BICEP_TEMPLATE_FILE", DefaultBicep)
PARAMETERS_FILE == getenv_default("BICEP_PARAMETERS_FILE", DefaultParams)

\* a variant: `SUBSCRIPTION_ID is None`, which lets the empty string through
MissingSubscription_IsNone == ~SUBSCRIPTION_ID.set

\* `not SUBSCRIPTION_ID`: None and the empty string are falsy
MissingSubscription == ~SUBSCRIPTION_ID.set \/ SUBSCRIPTION_ID.val = ""

----------------------------------------------------------------------------
(* Exits *)

\* sys.exit(1) after printing `lines` to stderr
ExitWithError(lines) ==
    /\ stderr' = stderr \o lines
    /\ exit_code' = 1
    /\ pc' = "exited"

\* an exception nothing catches: the interpreter prints the traceback to stderr
\* and the process ends with status 1
Raise(exc) == ExitWithError(<< <<"Traceback (most recent call last):">>, <<exc>> >>)

----------------------------------------------------------------------------
(* Module level: lines 13-21 *)

ConfigCheck ==
    /\ pc = "module"
    /\ trace' = Append(trace, "config")
    /\ IF MissingSubscription
         THEN ExitWithError(<<
                <<"Error: ", "AZURE_SUBSCRIPTION_ID", " environment variable is required">>,
                <<"Set it with: export ", "AZURE_SUBSCRIPTION_ID", "=<your-subscription-id>">> >>)
         ELSE /\ pc' = "main"
              /\ UNCHANGED <<stderr, exit_code>>
    /\ UNCHANGED <<env, files, stdout, client, proc, template, parameters,
                   requests, operation, result, perfVars>>

(* main, lines 44-48 *)
Initialize ==
    /\ pc = "main"
    /\ stdout' = Append(stdout, <<"Initializing Azure deployment...">>)
    /\ client' = [credential |-> "AzureCliCredential", subscription_id |-> SUBSCRIPTION_ID.val]
    /\ pc' = "compile"
    /\ UNCHANGED <<env, files, trace, stderr, exit_code, proc, template, parameters,
                   requests, operation, result, perfVars>>

----------------------------------------------------------------------------
(* compile_bicep, lines 23-34, called at line 51 *)

\* json.loads on the text the build tool wrote
JsonLoads(text) ==
    CASE text = "{\"resources\": []}" ->
            [ok |-> TRUE, doc |-> [resources |-> <<>>]]
      [] text = "{\"resources\": [\"vnet\"]}" ->
            [ok |-> TRUE, doc |-> [resources |-> <<"vnet">>]]
      [] OTHER -> [ok |-> FALSE, doc |-> [resources |-> <<>>]]

\* what subprocess.run can come back with: the tool could not be started
\* (subprocess.run raises), or it ran and returned a status and its two texts
ToolOutcomes ==
    {[started |-> FALSE, returncode |-> 0, stdout |-> "", stderr |-> ""]}
    \cup {[started |-> TRUE, returncode |-> 0, stdout |-> o, stderr |-> e]
            : o \in {"{\"resources\": []}", "{\"resources\": [\"vnet\"]}", "Usage: az"},
              e \in {"WARNING: a newer Bicep is available"}}
    \cup {[started |-> TRUE, returncode |-> rc, stdout |-> "", stderr |-> e]
            : rc \in {1, 2}, e \in {"", "main.bicep(3,1): Error BCP018"}}
    \cup {[started |-> TRUE, returncode |-> 1, stdout |-> "{\"resources\": []}",
           stderr |-> "main.bicep(3,1): Error BCP018"]}

\* a variant: the error is printed but sys.exit(1) is missing
compile_bicep_NoExit(bicep_path, run) ==
    /\ stdout' = Append(stdout, <<"Compiling ", bicep_path, "...">>)
    /\ proc' = [args |-> <<"az", "bicep", "build", "--file", bicep_path, "--stdout">>,
                started |-> run.started, returncode |-> run.returncode,
                stdout |-> run.stdout, stderr |-> run.stderr]
    /\ IF ~run.started
         THEN Raise("FileNotFoundError") /\ UNCHANGED template
         ELSE IF ~JsonLoads(run.stdout).ok
         THEN /\ ExitWithError(
                    (IF run.returncode # 0
                       THEN << <<"Error compiling Bicep: ", run.stderr>> >> ELSE <<>>)
                    \o << <<"Traceback (most recent call last):">>,
                          <<"json.JSONDecodeError">> >>)
              /\ UNCHANGED template
         ELSE /\ template' = JsonLoads(run.stdout).doc
              /\ pc' = "load"
              /\ stderr' = stderr \o
                    (IF run.returncode # 0
                       THEN << <<"Error compiling Bicep: ", run.stderr>> >> ELSE <<>>)
              /\ UNCHANGED exit_code

compile_bicep(bicep_path, run) ==
    /\ stdout' = Append(stdout, <<"Compiling ", bicep_path, "...">>)
    /\ proc' = [args |-> <<"az", "bicep", "build", "--file", bicep_path, "--stdout">>,
                started |-> run.started, returncode |-> run.returncode,
                stdout |-> run.stdout, stderr |-> run.stderr]
    /\ IF ~run.started
         THEN Raise("FileNotFoundError") /\ UNCHANGED template
         ELSE IF run.returncode # 0
         THEN /\ ExitWithError(<< <<"Error compiling Bicep: ", run.stderr>> >>)
              /\ UNCHANGED template
         ELSE IF ~JsonLoads(run.stdout).ok
         THEN Raise("json.JSONDecodeError") /\ UNCHANGED template
         ELSE /\ template' = JsonLoads(run.stdout).doc
              /\ pc' = "load"
              /\ UNCHANGED <<stderr, exit_code>>

\* a variant: a failed compilation is tried again
CompileRetry ==
    /\ pc = "compile"
    /\ trace' = Append(trace, "compile")
    /\ \E run \in ToolOutcomes :
         IF run.started /\ run.returncode # 0 /\ Len(trace) < 3
           THEN /\ stdout' = Append(stdout, <<"Compiling ", BICEP_FILE, "...">>)
                /\ stderr' = Append(stderr, <<"Error compiling Bicep: ", run.stderr>>)
                /\ UNCHANGED <<pc, exit_code, proc, template>>
           ELSE compile_bicep(BICEP_FILE, run)
    /\ UNCHANGED <<env, files, client, parameters, requests, operation, result, perfVars>>

Compile ==
    /\ pc = "compile"
    /\ trace' = Append(trace, "compile")
    /\ \E run \in ToolOutcomes : compile_bicep(BICEP_FILE, run)
    /\ UNCHANGED <<env, files, client, parameters, requests, operation, result, perfVars>>

----------------------------------------------------------------------------
(* load_parameters, lines 36-41, called at line 54 *)

\* the exception load_parameters ends with, "" when it returns
load_parameters_error(param_file) ==
    LET c == files[param_file] IN
    IF c.kind = "missing" THEN "FileNotFoundError"
    ELSE IF c.kind = "invalid" THEN "json.JSONDecodeError"
    ELSE IF c.kind = "no_parameters" THEN "KeyError: 'parameters'"
    ELSE IF \E k \in DOMAIN c.parameters : "value" \notin DOMAIN c.parameters[k]
    THEN "KeyError: 'value'"
    ELSE ""

\* a variant: entries that carry more than "value" are skipped
load_parameters_PlainOnly(param_file) ==
    LET params == files[param_file] IN
    [k \in {n \in DOMAIN params.parameters : DOMAIN params.parameters[n] = {"value"}}
        |-> params.parameters[k]["value"]]

\* the mapping load_parameters returns
load_parameters(param_file) ==
    LET params == files[param_file] IN
    [k \in DOMAIN params.parameters |-> params.parameters[k]["value"]]

LoadParameters ==
    /\ pc = "load"
    /\ trace' = Append(trace, "load")
    /\ IF load_parameters_error(PARAMETERS_FILE) # ""
         THEN Raise(load_parameters_error(PARAMETERS_FILE)) /\ UNCHANGED parameters
         ELSE /\ parameters' = load_parameters(PARAMETERS_FILE)
              /\ pc' = "submit"
              /\ UNCHANGED <<stderr, exit_code>>
    /\ UNCHANGED <<env, files, stdout, client, proc, template, requests, operation,
                   result, perfVars>>

----------------------------------------------------------------------------
(* main, lines 56-74: the deployment request *)

deployment_name == "infrastructure-deployment"

\* DeploymentProperties(mode, template, parameters), lines 58-62
DeploymentProperties ==
    [mode |-> "Incremental",
     template |-> template,
     parameters |-> [k \in DOMAIN parameters |-> [f \in {"value"} |-> parameters[k]]]]

\* the call of lines 68-72 as the remote side receives it
DeploymentRequest ==
    [subscription_id |-> client.subscription_id,
     resource_group |-> RESOURCE_GROUP,
     deployment_name |-> deployment_name,
     properties |-> DeploymentProperties]

Submit ==
    /\ pc = "submit"
    /\ trace' = Append(trace, "submit")
    /\ \E accepted \in BOOLEAN :
         IF accepted
           THEN /\ requests' = Append(requests, DeploymentRequest)
                /\ operation' = [status |-> "in_progress", result |-> None]
                /\ stdout' = stdout \o
                     << <<"Starting deployment '", deployment_name,
                          "' to resource group '", RESOURCE_GROUP, "'...">>,
                        <<"Deployment started. Waiting for completion...">> >>
                /\ pc' = "wait"
                /\ UNCHANGED <<stderr, exit_code>>
           ELSE \* begin_create_or_update raises: no credentials, a refused request
                /\ stdout' = Append(stdout,
                        <<"Starting deployment '", deployment_name,
                          "' to resource group '", RESOURCE_GROUP, "'...">>)
                /\ Raise("azure.core.exceptions.HttpResponseError")
                /\ UNCHANGED <<requests, operation>>
    /\ UNCHANGED <<env, files, client, proc, template, parameters, result, perfVars>>

----------------------------------------------------------------------------
(* The remote operation and operation.result(), line 75 *)

ProvisioningStates == {"Succeeded", "Failed", "Canceled"}

\* outputs is None or a mapping key -> entry
Results ==
    {[provisioning_state |-> s, has_outputs |-> FALSE, outputs |-> EmptyDict]
        : s \in ProvisioningStates}
    \cup {[provisioning_state |-> s, has_outputs |-> TRUE, outputs |-> d]
            : s \in ProvisioningStates, d \in DictsOf(OutputKeys, EntriesOf(OutputValues))}

\* The remote side ends the operation: the poller has a result to return, or an
\* error to raise.
RemoteFinish ==
    /\ operation # None
    /\ operation.status = "in_progress"
    /\ \/ \E r \in Results : operation' = [status |-> "returned", result |-> r]
       \/ operation' = [status |-> "raised", result |-> None]
    /\ UNCHANGED <<env, files, pc, trace, stdout, stderr, exit_code, client, proc,
                   template, parameters, requests, result, perfVars>>

\* a variant: result(timeout) gives up on an operation still in progress
Wait_GivesUp ==
    /\ pc = "wait"
    /\ trace' = Append(trace, "wait")
    /\ IF operation.status # "returned"
         THEN Raise("azure.core.exceptions.HttpResponseError") /\ UNCHANGED result
         ELSE /\ result' = operation.result
              /\ pc' = "print"
              /\ UNCHANGED <<stderr, exit_code>>
    /\ UNCHANGED <<env, files, stdout, client, proc, template, parameters, requests,
                   operation, perfVars>>

\* operation.result() returns or raises once the operation has ended, and blocks
\* until then
Wait ==
    /\ pc = "wait"
    /\ operation.status # "in_progress"
    /\ trace' = Append(trace, "wait")
    /\ IF operation.status = "raised"
         THEN Raise("azure.core.exceptions.HttpResponseError") /\ UNCHANGED result
         ELSE /\ result' = operation.result
              /\ pc' = "print"
              /\ UNCHANGED <<stderr, exit_code>>
    /\ UNCHANGED <<env, files, stdout, client, proc, template, parameters, requests,
                   operation, perfVars>>

----------------------------------------------------------------------------
(* main, lines 77-82: the report *)

\* a variant: value.get('value'), whose default is None
GetValue_NoDefault(entry) ==
    IF "value" \in DOMAIN entry THEN entry["value"] ELSE StrVal("None")

\* value.get('value', 'N/A')
GetValue(entry) == IF "value" \in DOMAIN entry THEN entry["value"] ELSE StrVal("N/A")

OutputLine(key, entry) == <<"  ", key, ": ", Str(GetValue(entry))>>

\* the lines of the loop of lines 81-82, the keys from the i-th on
RECURSIVE OutputLines(_, _)
OutputLines(outputs, i) ==
    IF i > Len(OutputNames) THEN <<>>
    ELSE (IF OutputNames[i] \in DOMAIN outputs
            THEN <<OutputLine(OutputNames[i], outputs[OutputNames[i]])>>
            ELSE <<>>)
         \o OutputLines(outputs, i + 1)

\* `if result.properties.outputs:`: None and the empty mapping are falsy
HasOutputs(r) == r.has_outputs /\ DOMAIN r.outputs # {}

\* the lines of lines 77-82 (the check mark that opens the first one is left out
\* of the literal)
Report(r) ==
    << <<"\n", "Deployment completed: ", r.provisioning_state>> >>
    \o (IF HasOutputs(r) THEN << <<"\n", "Outputs:">> >> \o OutputLines(r.outputs, 1)
                          ELSE <<>>)

PrintReport ==
    /\ pc = "print"
    /\ trace' = Append(trace, "print")
    /\ stdout' = stdout \o Report(result)
    /\ exit_code' = 0
    /\ pc' = "exited"
    /\ UNCHANGED <<env, files, stderr, client, proc, template, parameters, requests,
                   operation, result, perfVars>>

----------------------------------------------------------------------------
(* The driver's specification *)

DriverInit ==
    /\ env \in Envs
    /\ \E c \in FileContents, at \in Paths :
          files = [p \in Paths |-> IF p = at THEN c ELSE Missing]
    /\ pc = "module"
    /\ trace = <<>>
    /\ stdout = <<>>
    /\ stderr = <<>>
    /\ exit_code = -1
    /\ client = None
    /\ proc = None
    /\ template = None
    /\ parameters = None
    /\ requests = <<>>
    /\ operation = None
    /\ result = None

PerfIdle ==
    /\ now = 0
    /\ calls = <<>>
    /\ records = <<>>

Init == DriverInit /\ PerfIdle

\* the statements of the process itself, which runs them one after the other
DriverStep ==
    \/ ConfigCheck
    \/ Initialize
    \/ Compile
    \/ LoadParameters
    \/ Submit
    \/ Wait
    \/ PrintReport

Next ==
    \/ ConfigCheck
    \/ Initialize
    \/ Compile
    \/ LoadParameters
    \/ Submit
    \/ RemoteFinish
    \/ Wait
    \/ PrintReport

Spec == Init /\ [][Next]_vars

\* A running process takes its next step; nothing makes the remote side finish.
FairSpec == Init /\ [][Next]_vars /\ WF_vars(DriverStep)

----------------------------------------------------------------------------
(* track_performance, performance.py lines 5-20.  Times are counted in ticks, *)
(* TicksPerMs of them to the millisecond.                                     *)

\* int(x) for x = num / den, den > 0: the fraction is dropped
int(num, den) == IF num >= 0 THEN num \div den ELSE -((-num) \div den)

\* time.time()
time == now

\* a variant: the subtraction the other way round
track_performance_Swapped(start_time) ==
    LET end_time == time
        total_time == start_time - end_time
    IN  [total_execution_time_ms |-> int(total_time, TicksPerMs),
         start_time |-> start_time,
         end_time |-> end_time,
         status |-> "completed",
         workflow_version |-> "v1.0"]

track_performance(start_time) ==
    LET end_time == time
        total_time == end_time - start_time
    IN  [total_execution_time_ms |-> int(total_time, TicksPerMs),
         start_time |-> start_time,
         end_time |-> end_time,
         status |-> "completed",
         workflow_version |-> "v1.0"]

Timestamps == 0..MaxClock

\* a caller calls the tool; any timestamp may be handed in
TrackPerformance ==
    /\ Len(calls) < MaxCalls
    /\ \E start_time \in Timestamps :
         /\ calls' = Append(calls, [start_time |-> start_time, at |-> now])
         /\ records' = Append(records, track_performance(start_time))
    /\ UNCHANGED <<now, driverVars>>

\* the wall clock moves on, or is set back
ClockChange ==
    /\ \E t \in Timestamps : t # now /\ now' = t
    /\ UNCHANGED <<calls, records, driverVars>>

DriverIdle ==
    /\ env = EmptyDict
    /\ files = [p \in Paths |-> Missing]
    /\ pc = "not_started"
    /\ trace = <<>>
    /\ stdout = <<>>
    /\ stderr = <<>>
    /\ exit_code = -1
    /\ client = None
    /\ proc = None
    /\ template = None
    /\ parameters = None
    /\ requests = <<>>
    /\ operation = None
    /\ result = None

PerfInit ==
    /\ DriverIdle
    /\ now \in Timestamps
    /\ calls = <<>>
    /\ records = <<>>

PerfNext ==
    \/ TrackPerformance
    \/ ClockChange

SpecPerf == PerfInit /\ [][PerfNext]_vars

----------------------------------------------------------------------------
(* Helpers of the properties below *)

IsPrefix(s, t) == Len(s) <= Len(t) /\ \A i \in 1..Len(s) : s[i] = t[i]

Mentions(lines, fragment) ==
    \E i \in 1..Len(lines) : \E j \in 1..Len(lines[i]) : lines[i][j] = fragment

Started(step) == \E i \in 1..Len(trace) : trace[i] = step

SubscriptionUnsetOrEmpty ==
    \/ "AZURE_SUBSCRIPTION_ID" \notin DOMAIN env
    \/ env["AZURE_SUBSCRIPTION_ID"] = ""

\* the parameters document of the run: the "parameters" mapping of the file the
\* environment names
ParametersDocument ==
    files[IF "BICEP_PARAMETERS_FILE" \in DOMAIN env THEN env["BICEP_PARAMETERS_FILE"]
                                                  ELSE "infra/bicep/main.parameters.json"]
        .parameters

----------------------------------------------------------------------------
(* C1: with AZURE_SUBSCRIPTION_ID unset or empty the driver never gets past  *)
(* the module level check: it constructs no client, runs no compiler, reads  *)
(* no parameters file, submits nothing and prints nothing to stdout; and     *)
(* once it has exited, its status is 1 and stderr names AZURE_SUBSCRIPTION_ID *)
C1_MissingSubscriptionExits ==
    SubscriptionUnsetOrEmpty =>
        /\ pc \in {"module", "exited"}
        /\ IsPrefix(trace, <<"config">>)
        /\ client = None /\ proc = None /\ template = None /\ parameters = None
        /\ requests = <<>> /\ operation = None
        /\ stdout = <<>>
        /\ pc = "exited" =>
              /\ exit_code = 1
              /\ Len(stderr) > 0
              /\ \A i \in 1..Len(stderr) : Mentions(<<stderr[i]>>, "AZURE_SUBSCRIPTION_ID")

C1_Witness ==
    /\ pc = "exited"
    /\ "AZURE_SUBSCRIPTION_ID" \in DOMAIN env
    /\ env["AZURE_SUBSCRIPTION_ID"] = ""
    /\ exit_code = 1

----------------------------------------------------------------------------
(* C2: once the build tool has returned a non-zero status the driver has     *)
(* exited with status 1, stderr holds the tool's stderr text, the parameters *)
(* file was not read and no deployment was submitted                         *)
C2_CompileFailureStops ==
    (proc # None /\ proc.started /\ proc.returncode # 0) =>
        /\ pc = "exited"
        /\ exit_code = 1
        /\ stderr = << <<"Error compiling Bicep: ", proc.stderr>> >>
        /\ ~Started("load") /\ parameters = None
        /\ ~Started("submit") /\ requests = <<>> /\ operation = None

C2_Witness ==
    /\ proc # None
    /\ proc.started
    /\ proc.returncode = 2
    /\ proc.stderr = "main.bicep(3,1): Error BCP018"
    /\ pc = "exited"

----------------------------------------------------------------------------
(* C3: every failure of a run ends the process with a non-zero status and an *)
(* error on stderr, a remote operation that ended in a failed provisioning   *)
(* state included; the process exits 0 only on success                       *)
RunFailed ==
    \/ SubscriptionUnsetOrEmpty
    \/ proc # None /\ (~proc.started \/ proc.returncode # 0 \/ template = None)
    \/ Started("load") /\ parameters = None
    \/ Started("submit") /\ requests = <<>>
    \/ operation # None /\ operation.status = "raised"
    \/ operation # None /\ operation.status = "returned"
          /\ operation.result.provisioning_state # "Succeeded"

C3_EveryFailureFatal ==
    pc = "exited" =>
        /\ RunFailed => exit_code # 0 /\ stderr # <<>>
        /\ exit_code = 0 => ~RunFailed

----------------------------------------------------------------------------
(* C4: the mapping load_parameters returns has exactly the keys of the       *)
(* document's "parameters" mapping and maps each key to that entry's "value" *)
C4_LoadParametersFlat ==
    parameters # None =>
        /\ DOMAIN parameters = DOMAIN ParametersDocument
        /\ \A k \in DOMAIN ParametersDocument :
              parameters[k] = ParametersDocument[k]["value"]

\* {"parameters": {"a": {"value": 1}, "b": {"value": "x"}}} yields {"a": 1, "b": "x"}
C4_Witness ==
    /\ parameters # None
    /\ DOMAIN ParametersDocument = {"a", "b"}
    /\ ParametersDocument["a"] = [f \in {"value"} |-> IntVal(1)]
    /\ ParametersDocument["b"] = [f \in {"value"} |-> StrVal("x")]
    /\ DOMAIN parameters = {"a", "b"}
    /\ parameters["a"] = IntVal(1)
    /\ parameters["b"] = StrVal("x")

----------------------------------------------------------------------------
(* C5: once the report is printed, stdout holds the line with the result's   *)
(* provisioning state, followed, when outputs is a non-empty mapping, by the *)
(* Outputs header and exactly one line "key: value" per key, the value being *)
(* the entry's "value" or N/A when it has none; with outputs empty or absent *)
(* nothing follows the state line and no Outputs header is printed           *)
OutputText(entry) ==
    IF "value" \notin DOMAIN entry THEN "N/A"
    ELSE IF entry["value"] = StrVal("http://example") THEN "http://example"
    ELSE "1"

C5_ReportPrinted ==
    Started("print") =>
        \E i \in 1..Len(stdout) :
            /\ stdout[i] = <<"\n", "Deployment completed: ", result.provisioning_state>>
            /\ IF result.has_outputs /\ DOMAIN result.outputs # {}
                 THEN /\ stdout[i + 1] = <<"\n", "Outputs:">>
                      /\ Len(stdout) = i + 1 + Cardinality(DOMAIN result.outputs)
                      /\ \A k \in DOMAIN result.outputs :
                            \E j \in (i + 2)..Len(stdout) :
                                stdout[j] = <<"  ", k, ": ", OutputText(result.outputs[k])>>
                 ELSE /\ Len(stdout) = i
                      /\ ~Mentions(stdout, "Outputs:")

\* state "Succeeded" with an output url of value http://example and an output
\* without a value
C5_Witness ==
    /\ Started("print")
    /\ result.provisioning_state = "Succeeded"
    /\ DOMAIN result.outputs = {"url", "id"}
    /\ result.outputs["url"] = [f \in {"value"} |-> StrVal("http://example")]
    /\ "value" \notin DOMAIN result.outputs["id"]
    /\ Mentions(stdout, "Succeeded")
    /\ \E j \in 1..Len(stdout) : stdout[j] = <<"  ", "url", ": ", "http://example">>
    /\ \E j \in 1..Len(stdout) : stdout[j] = <<"  ", "id", ": ", "N/A">>

----------------------------------------------------------------------------
(* C6: every request submitted targets the configured resource group (the    *)
(* default when AZURE_RESOURCE_GROUP is unset), is named                     *)
(* infrastructure-deployment, is incremental, carries the document the build *)
(* tool wrote, and carries for exactly the keys of the parameters document   *)
(* the mapping {"value": v} of the document's value                          *)
C6_RequestShape ==
    \A i \in 1..Len(requests) :
        LET r == requests[i] IN
        /\ r.resource_group =
              (IF "AZURE_RESOURCE_GROUP" \in DOMAIN env THEN env["AZURE_RESOURCE_GROUP"]
                                                   ELSE "rg-agentic-waf")
        /\ r.deployment_name = "infrastructure-deployment"
        /\ r.properties.mode = "Incremental"
        /\ r.properties.template =
              (IF proc.stdout = "{\"resources\": []}" THEN [resources |-> <<>>]
                                                       ELSE [resources |-> <<"vnet">>])
        /\ DOMAIN r.properties.parameters = DOMAIN ParametersDocument
        /\ \A k \in DOMAIN ParametersDocument :
              /\ DOMAIN r.properties.parameters[k] = {"value"}
              /\ r.properties.parameters[k]["value"] = ParametersDocument[k]["value"]

\* a request made with AZURE_RESOURCE_GROUP set to the empty string, from a
\* document whose entry carries a sibling of "value"
C6_Witness ==
    /\ Len(requests) = 1
    /\ "AZURE_RESOURCE_GROUP" \in DOMAIN env
    /\ env["AZURE_RESOURCE_GROUP"] = ""
    /\ requests[1].properties.template = [resources |-> <<"vnet">>]
    /\ DOMAIN ParametersDocument = {"a", "b"}
    /\ DOMAIN ParametersDocument["b"] = {"value", "type"}

----------------------------------------------------------------------------
(* C7: every record track_performance returns has exactly the five fields,   *)
(* start_time is the input T, end_time is the clock reading of the call and  *)
(* is not before T, total_execution_time_ms is (end_time - T) * 1000 with    *)
(* the fraction dropped, status is "completed" and workflow_version "v1.0"   *)
TruncatedMs(m, ticks) ==
    IF ticks >= 0 THEN m >= 0 /\ m * TicksPerMs <= ticks /\ ticks < (m + 1) * TicksPerMs
                  ELSE m <= 0 /\ (m - 1) * TicksPerMs < ticks /\ ticks <= m * TicksPerMs

C7_PerformanceRecord ==
    \A i \in 1..Len(records) :
        LET r == records[i]
            T == calls[i].start_time
        IN  /\ DOMAIN r = {"total_execution_time_ms", "start_time", "end_time",
                           "status", "workflow_version"}
            /\ r.start_time = T
            /\ r.end_time = calls[i].at
            /\ r.end_time >= T
            /\ TruncatedMs(r.total_execution_time_ms, r.end_time - T)
            /\ r.status = "completed"
            /\ r.workflow_version = "v1.0"

----------------------------------------------------------------------------
(* C8: two calls with the same start_time return records that agree on every *)
(* field but end_time and total_execution_time_ms; a record depends on its   *)
(* own call's input and clock reading alone, whatever calls came before; and *)
(* when the later call reads a clock that is not behind the earlier call's,  *)
(* its total_execution_time_ms is not smaller                                *)
C8_SameStartTwoCalls ==
    \A i \in 1..Len(records) : \A j \in 1..Len(records) :
        (i < j /\ calls[i].start_time = calls[j].start_time) =>
            /\ DOMAIN records[i] = DOMAIN records[j]
            /\ records[i].start_time = records[j].start_time
            /\ records[i].status = records[j].status
            /\ records[i].workflow_version = records[j].workflow_version
            /\ records[i].end_time = calls[i].at /\ records[j].end_time = calls[j].at
            /\ calls[i].at = calls[j].at => records[i] = records[j]
            /\ calls[i].at <= calls[j].at =>
                  records[i].total_execution_time_ms <= records[j].total_execution_time_ms

C8_Witness ==
    /\ Len(records) = 2
    /\ calls[1].start_time = calls[2].start_time
    /\ calls[1].at < calls[2].at
    /\ records[1].end_time < records[2].end_time
    /\ records[1].total_execution_time_ms < records[2].total_execution_time_ms

----------------------------------------------------------------------------
(* C9: the steps of a run are a prefix of configuration check, compilation,  *)
(* parameters load, submission, wait, report; a step is started only when    *)
(* every step before it succeeded; the compiler is run and a deployment is   *)
(* submitted at most once                                                    *)
StepOrder == <<"config", "compile", "load", "submit", "wait", "print">>

C9_FixedOrderNoRetry ==
    /\ IsPrefix(trace, StepOrder)
    /\ Cardinality({i \in 1..Len(trace) : trace[i] = "compile"}) <= 1
    /\ Len(requests) <= 1
    /\ Started("compile") => ~SubscriptionUnsetOrEmpty
    /\ Started("load") => proc.started /\ proc.returncode = 0 /\ template # None
    /\ Started("submit") => parameters # None
    /\ Started("wait") => Len(requests) = 1 /\ operation.status # "in_progress"
    /\ Started("print") => operation.status = "returned" /\ result = operation.result
    /\ (pc = "exited" /\ exit_code # 0) => ~Started("print")

C9_Witness ==
    /\ trace = StepOrder
    /\ pc = "exited"
    /\ exit_code = 0

----------------------------------------------------------------------------
(* C10: the "Deployment completed" line is printed only once the remote      *)
(* operation has ended; a driver that has submitted a deployment exits only  *)
(* once the operation has ended, so it never exits if the operation never    *)
(* ends; and once the operation has ended the driver eventually exits        *)
OperationEnded == operation # None /\ operation.status # "in_progress"

C10_BlocksUntilTerminal ==
    /\ [](Mentions(stdout, "Deployment completed: ")
            => operation # None /\ operation.status = "returned")
    /\ []((pc = "exited" /\ requests # <<>>) => OperationEnded)
    /\ (OperationEnded ~> pc = "exited")

C10_Witness ==
    /\ pc = "exited"
    /\ requests # <<>>
    /\ operation.status = "returned"
    /\ Mentions(stdout, "Deployment completed: ")

====
